---- MODULE Spec2Model ----
(***************************************************************************)
(* Timeline generator (src/main.py): one sheet of timed broadcast segments *)
(* is cleaned into contiguous segments (process_sheet), coloured           *)
(* (get_color), merged into team spans and digest groups, labelled inside  *)
(* or outside its bars, and the outside labels are packed into lanes above *)
(* and below the row (draw_row_outside_labels / place_band).               *)
(*                                                                         *)
(* Conventions of the model.                                               *)
(*  - A str is a sequence of characters, each character a one-element      *)
(*    string; the Japanese characters are written by their readings.       *)
(*  - Times are whole seconds: durations in the sheets are whole numbers,  *)
(*    on which the float64 arithmetic of pandas is exact.                  *)
(*  - anchor_x2 holds twice anchor_x, so that the midpoint (s + e) / 2 of  *)
(*    whole seconds stays a whole number.                                  *)
(*  - y coordinates are in hundredths of an axis unit.                     *)
(*  - One iteration of generate's loop over the sheets is modelled (y0 = 0)*)
(***************************************************************************)
EXTENDS Integers, Sequences, FiniteSets, TLC

VARIABLES
    xls,            \* the sheet as read: sequence of raw rows
    include_cm,     \* the --include-cm flag
    char_px,        \* rendered width of one character of a label, in pixels
    pc,             \* position in generate
    df,             \* process_sheet's result: the segments
    bars,           \* ax.broken_barh calls: <<start, width, facecolor, cm_text>>
    merged,         \* team spans
    cur_team,       \* None or Some(team)
    cur_s,
    cur_e,
    i,              \* loop index of the running loop
    digest_groups,  \* <<start, end, count>>
    inside,         \* labels drawn inside a bar
    row_outside,    \* queued outside-label requests
    top_items,
    bottom_items,
    direction,      \* band being placed: +1 top, -1 bottom
    lane_end,       \* rightmost x of each lane of the band being placed
    texts,          \* outside labels drawn: ax.text and ax.annotate calls of place_band
    top_max_y,
    bottom_min_y

vars == <<xls, include_cm, char_px, pc, df, bars, merged, cur_team, cur_s, cur_e,
          i, digest_groups, inside, row_outside, top_items, bottom_items,
          direction, lane_end, texts, top_max_y, bottom_min_y>>

(***************************************************************************)
(* Bounds of the model                                                     *)
(***************************************************************************)
MaxRows == 4
MaxItems == 5

(***************************************************************************)
(* Text                                                                    *)
(***************************************************************************)
CM == <<"C", "M">>
VTR == <<"V", "T", "R">>
JINRIKI == <<"jin", "riki">>                      \* human-powered
KAKKUU == <<"katsu", "kuu">>                      \* glider
DIGEST == <<"da", "i", "ji", "e", "su", "to">>    \* digest

Whitespace == {" "}

\* Python's `m in s`, pandas' str.contains(m) for a literal m
Contains(s, m) ==
    \E k \in 0..(Len(s) - Len(m)) : SubSeq(s, k + 1, k + Len(m)) = m

\* not s.strip()
IsBlank(s) == \A k \in 1..Len(s) : s[k] \in Whitespace

RECURSIVE Digits(_)
Digits(n) ==
    IF n < 10 THEN <<ToString(n)>>
    ELSE Digits(n \div 10) \o Digits(n % 10)

\* f"<digest>: <kei>{N}<chi-mu>"
DigestLabel(n) == DIGEST \o <<":", " ", "kei">> \o Digits(n) \o <<"chi", "-", "mu">>

Max(a, b) == IF a >= b THEN a ELSE b
Min(a, b) == IF a <= b THEN a ELSE b

None == <<>>
Some(v) == <<v>>

(***************************************************************************)
(* get_color and the bar colour                                            *)
(***************************************************************************)
get_color(dept, note) ==
    IF Contains(dept, JINRIKI)
    THEN IF Contains(note, VTR) THEN "#2fa0fc" ELSE "#b3e9f8"
    ELSE IF Contains(dept, KAKKUU)
         THEN IF Contains(note, VTR) THEN "#00d65b" ELSE "#cbf266"
         ELSE "#c8c8cb"

BarColor_NoOverride(r) == get_color(r.dept, r.note)

BarColor(r) == IF r.is_cm THEN "#9a9a9a" ELSE get_color(r.dept, r.note)

(***************************************************************************)
(* process_sheet                                                           *)
(***************************************************************************)
\* a cell of the duration column: a number, or anything to_numeric coerces to NaN
Num(n) == [nan |-> FALSE, val |-> n]
NaN == [nan |-> TRUE, val |-> 0]

IsValid(r) == ~r.dur.nan /\ r.dur.val > 0

mask_cm(r) == Contains(r.team, CM) \/ Contains(r.note, CM) \/ Contains(r.dept, CM)

is_digest(r) == Contains(r.note, DIGEST)

RECURSIVE cumsum(_, _)
cumsum(rows, k) == IF k = 0 THEN 0 ELSE cumsum(rows, k - 1) + rows[k].dur

Start_Inclusive(rows, k) == cumsum(rows, k)

Start(rows, k) == cumsum(rows, k) - rows[k].dur

Keep_All(r, inc) == TRUE

Keep(r, inc) == inc \/ ~r.is_cm

process_sheet(sheet, inc) ==
    LET valid == SelectSeq(sheet, IsValid)
        flagged == [k \in 1..Len(valid) |->
                      [dur |-> valid[k].dur.val, team |-> valid[k].team,
                       dept |-> valid[k].dept, note |-> valid[k].note,
                       is_cm |-> mask_cm(valid[k])]]
        KeepInc(r) == Keep(r, inc)
        kept == SelectSeq(flagged, KeepInc)
    IN [k \in 1..Len(kept) |->
          [dur |-> kept[k].dur, team |-> kept[k].team, dept |-> kept[k].dept,
           note |-> kept[k].note, is_cm |-> kept[k].is_cm,
           start |-> Start(kept, k),
           end |-> Start(kept, k) + kept[k].dur,
           is_digest |-> is_digest(kept[k])]]

(***************************************************************************)
(* generate: geometry                                                      *)
(***************************************************************************)
y0 == 0
xmin == 0
xmax == 7200
axis_len == 7200
fig_w_px == 2700          \* figsize 18 in x dpi 150
need_pad == 6
pref_offset == 6
bar_half == 35            \* 0.35
gap == 12                 \* 0.12
lane_spacing == 22        \* 0.22
min_gap == 10
left_margin == 8
right_margin == 12

\* bb.width of the rendered label, in pixels
bb_width(label) == Len(label) * char_px

sec_per_px_times(px) == (px * axis_len) \div fig_w_px

need_sec(label) == sec_per_px_times(bb_width(label)) + need_pad

(***************************************************************************)
(* generate: bars                                                          *)
(***************************************************************************)
ProcessSheet ==
    /\ pc = "process_sheet"
    /\ df' = process_sheet(xls, include_cm)
    /\ pc' = "bars"
    /\ UNCHANGED <<xls, include_cm, char_px, bars, merged, cur_team, cur_s, cur_e, i,
                   digest_groups, inside, row_outside, top_items, bottom_items,
                   direction, lane_end, texts, top_max_y, bottom_min_y>>

DrawBars ==
    /\ pc = "bars"
    /\ bars' = [k \in 1..Len(df) |->
                  [start |-> df[k].start, width |-> df[k].dur, fc |-> BarColor(df[k]),
                   cm_text |-> include_cm /\ df[k].is_cm]]
    /\ pc' = "team_merge"
    /\ i' = 1
    /\ UNCHANGED <<xls, include_cm, char_px, df, merged, cur_team, cur_s, cur_e,
                   digest_groups, inside, row_outside, top_items, bottom_items,
                   direction, lane_end, texts, top_max_y, bottom_min_y>>

(***************************************************************************)
(* generate: team merge                                                    *)
(***************************************************************************)
Run(st) == <<st.cur_team[1], st.cur_s, st.cur_e>>

Close(st) ==
    IF st.cur_team # None
    THEN [st EXCEPT !.merged = Append(@, Run(st)), !.cur_team = None]
    ELSE st

TeamStep_CmJoins(st, r) ==
    IF r.is_digest THEN Close(st)
    ELSE IF Some(r.team) = st.cur_team THEN [st EXCEPT !.cur_e = r.end]
    ELSE LET c == IF st.cur_team # None
                  THEN [st EXCEPT !.merged = Append(@, Run(st))]
                  ELSE st
         IN [c EXCEPT !.cur_team = Some(r.team), !.cur_s = r.start, !.cur_e = r.end]

\* one iteration of the loop over df.iterrows()
TeamStep(st, r) ==
    IF r.is_digest THEN Close(st)
    ELSE IF r.is_cm THEN Close(st)
    ELSE IF Some(r.team) = st.cur_team THEN [st EXCEPT !.cur_e = r.end]
    ELSE LET c == IF st.cur_team # None
                  THEN [st EXCEPT !.merged = Append(@, Run(st))]
                  ELSE st
         IN [c EXCEPT !.cur_team = Some(r.team), !.cur_s = r.start, !.cur_e = r.end]

\* `if cur_team:` after the loop
TeamFinish(st) ==
    IF st.cur_team # None /\ st.cur_team[1] # <<>>
    THEN Append(st.merged, Run(st))
    ELSE st.merged

MergeState == [merged |-> merged, cur_team |-> cur_team, cur_s |-> cur_s, cur_e |-> cur_e]

TeamMergeRow ==
    /\ pc = "team_merge"
    /\ i <= Len(df)
    /\ LET st == TeamStep(MergeState, df[i])
       IN /\ merged' = st.merged
          /\ cur_team' = st.cur_team
          /\ cur_s' = st.cur_s
          /\ cur_e' = st.cur_e
    /\ i' = i + 1
    /\ UNCHANGED <<xls, include_cm, char_px, pc, df, bars, digest_groups, inside,
                   row_outside, top_items, bottom_items, direction, lane_end, texts,
                   top_max_y, bottom_min_y>>

TeamMergeEnd ==
    /\ pc = "team_merge"
    /\ i > Len(df)
    /\ merged' = TeamFinish(MergeState)
    /\ pc' = "digest_merge"
    /\ i' = 1
    /\ UNCHANGED <<xls, include_cm, char_px, df, bars, cur_team, cur_s, cur_e,
                   digest_groups, inside, row_outside, top_items, bottom_items,
                   direction, lane_end, texts, top_max_y, bottom_min_y>>

(***************************************************************************)
(* generate: digest merge                                                  *)
(***************************************************************************)
\* the inner while: the last index j of the digest run that starts at k
RECURSIVE RunEnd(_, _)
RunEnd(rows, j) ==
    IF j + 1 <= Len(rows) /\ rows[j + 1].is_digest THEN RunEnd(rows, j + 1) ELSE j

DigestGroup_CountGap(rows, k) ==
    <<rows[k].start, rows[RunEnd(rows, k)].end, RunEnd(rows, k) - k>>

DigestGroup(rows, k) == <<rows[k].start, rows[RunEnd(rows, k)].end, RunEnd(rows, k) - k + 1>>

DigestScan ==
    /\ pc = "digest_merge"
    /\ i <= Len(df)
    /\ IF df[i].is_digest
       THEN /\ digest_groups' = Append(digest_groups, DigestGroup(df, i))
            /\ i' = RunEnd(df, i) + 1
       ELSE /\ i' = i + 1
            /\ UNCHANGED digest_groups
    /\ UNCHANGED <<xls, include_cm, char_px, pc, df, bars, merged, cur_team, cur_s,
                   cur_e, inside, row_outside, top_items, bottom_items, direction,
                   lane_end, texts, top_max_y, bottom_min_y>>

DigestEnd ==
    /\ pc = "digest_merge"
    /\ i > Len(df)
    /\ pc' = "label_teams"
    /\ i' = 1
    /\ UNCHANGED <<xls, include_cm, char_px, df, bars, merged, cur_team, cur_s, cur_e,
                   digest_groups, inside, row_outside, top_items, bottom_items,
                   direction, lane_end, texts, top_max_y, bottom_min_y>>

(***************************************************************************)
(* generate: the fits-inside decision                                      *)
(***************************************************************************)
Request(label, s, e, style) ==
    [label |-> label, anchor_x2 |-> s + e, pref_x |-> e + pref_offset,
     width |-> need_sec(label), style |-> style]

InsideText(label, s, e, style) == [label |-> label, xc2 |-> s + e, style |-> style]

FitsInside_Pixels(label, s, e) == e - s > bb_width(label) + need_pad

FitsInside(label, s, e) == e - s > need_sec(label)

LabelTeam ==
    /\ pc = "label_teams"
    /\ i <= Len(merged)
    /\ LET team == merged[i][1]
           s == merged[i][2]
           e == merged[i][3]
       IN IF IsBlank(team)
          THEN UNCHANGED <<inside, row_outside>>
          ELSE IF FitsInside(team, s, e)
               THEN /\ inside' = Append(inside, InsideText(team, s, e, "normal"))
                    /\ UNCHANGED row_outside
               ELSE /\ row_outside' = Append(row_outside, Request(team, s, e, "None"))
                    /\ UNCHANGED inside
    /\ i' = i + 1
    /\ UNCHANGED <<xls, include_cm, char_px, pc, df, bars, merged, cur_team, cur_s,
                   cur_e, digest_groups, top_items, bottom_items, direction, lane_end,
                   texts, top_max_y, bottom_min_y>>

LabelTeamsEnd ==
    /\ pc = "label_teams"
    /\ i > Len(merged)
    /\ pc' = "label_digests"
    /\ i' = 1
    /\ UNCHANGED <<xls, include_cm, char_px, df, bars, merged, cur_team, cur_s, cur_e,
                   digest_groups, inside, row_outside, top_items, bottom_items,
                   direction, lane_end, texts, top_max_y, bottom_min_y>>

LabelDigest ==
    /\ pc = "label_digests"
    /\ i <= Len(digest_groups)
    /\ LET s == digest_groups[i][1]
           e == digest_groups[i][2]
           label == DigestLabel(digest_groups[i][3])
       IN IF FitsInside(label, s, e)
          THEN /\ inside' = Append(inside, InsideText(label, s, e, "italic"))
               /\ UNCHANGED row_outside
          ELSE /\ row_outside' = Append(row_outside, Request(label, s, e, "italic"))
               /\ UNCHANGED inside
    /\ i' = i + 1
    /\ UNCHANGED <<xls, include_cm, char_px, pc, df, bars, merged, cur_team, cur_s,
                   cur_e, digest_groups, top_items, bottom_items, direction, lane_end,
                   texts, top_max_y, bottom_min_y>>

LabelDigestsEnd ==
    /\ pc = "label_digests"
    /\ i > Len(digest_groups)
    /\ pc' = "layout"
    /\ UNCHANGED <<xls, include_cm, char_px, df, bars, merged, cur_team, cur_s, cur_e, i,
                   digest_groups, inside, row_outside, top_items, bottom_items,
                   direction, lane_end, texts, top_max_y, bottom_min_y>>

(***************************************************************************)
(* draw_row_outside_labels.  A request is known by its position in         *)
(* row_outside (the identity of its dict): top_items and bottom_items hold *)
(* positions.                                                              *)
(***************************************************************************)
\* position of request k in sorted(items, key=anchor_x): the sort is stable
Rank(items, k) ==
    1 + Cardinality({j \in 1..Len(items) :
                        \/ items[j].anchor_x2 < items[k].anchor_x2
                        \/ items[j].anchor_x2 = items[k].anchor_x2 /\ j < k})

Sorted(items) ==
    [p \in 1..Len(items) |-> CHOOSE k \in 1..Len(items) : Rank(items, k) = p]

\* the requests at the even (0-based) places of the sorted list, and at the odd ones
TopOf(sorted) == [p \in 1..((Len(sorted) + 1) \div 2) |-> sorted[2 * p - 1]]
BottomOf_SameParity(sorted) == [p \in 1..(Len(sorted) \div 2) |-> sorted[2 * p - 1]]

BottomOf(sorted) == [p \in 1..(Len(sorted) \div 2) |-> sorted[2 * p]]

EnterLayout ==
    /\ pc = "layout"
    /\ top_max_y' = y0 + bar_half
    /\ bottom_min_y' = y0 - bar_half
    /\ IF row_outside = <<>>
       THEN /\ pc' = "done"
            /\ UNCHANGED <<top_items, bottom_items, direction, lane_end, i>>
       ELSE /\ top_items' = TopOf(Sorted(row_outside))
            /\ bottom_items' = BottomOf(Sorted(row_outside))
            /\ direction' = 1
            /\ lane_end' = <<>>
            /\ i' = 1
            /\ pc' = "place"
    /\ UNCHANGED <<xls, include_cm, char_px, df, bars, merged, cur_team, cur_s, cur_e,
                   digest_groups, inside, row_outside, texts>>

(***************************************************************************)
(* place_band                                                              *)
(***************************************************************************)
band_items == IF direction > 0 THEN top_items ELSE bottom_items

X0_NoLeftClamp(d) == Min(d.pref_x, xmax - d.width - right_margin)

\* initial preferred x, clamped to axis width
X0(d) == Max(xmin + left_margin, Min(d.pref_x, xmax - d.width - right_margin))

XTry_NoGap(d, endx) == Max(X0(d), endx)

XTry(d, endx) == Max(X0(d), endx + min_gap)

Fits(d, endx) == XTry(d, endx) <= xmax - d.width - right_margin

FirstFit_Last(d, lanes) ==
    IF \E k \in 1..Len(lanes) : Fits(d, lanes[k])
    THEN CHOOSE k \in 1..Len(lanes) :
            /\ Fits(d, lanes[k])
            /\ \A j \in (k + 1)..Len(lanes) : ~Fits(d, lanes[j])
    ELSE 0

\* the lane (1-based) the loop over lane_end breaks at; 0 when it does not break
FirstFit(d, lanes) ==
    IF \E k \in 1..Len(lanes) : Fits(d, lanes[k])
    THEN CHOOSE k \in 1..Len(lanes) :
            /\ Fits(d, lanes[k])
            /\ \A j \in 1..(k - 1) : ~Fits(d, lanes[j])
    ELSE 0

\* where the label goes: <<lane (0-based, as in the code), x>>
Placement(d, lanes) ==
    LET k == FirstFit(d, lanes)
    IN IF k > 0 THEN <<k - 1, XTry(d, lanes[k])>> ELSE <<Len(lanes), X0(d)>>

base_y(dir) == y0 + (IF dir > 0 THEN bar_half + gap ELSE -(bar_half + gap))

LaneY(dir, lane) == base_y(dir) + dir * (lane * lane_spacing)

Place ==
    /\ pc = "place"
    /\ i <= Len(band_items)
    /\ LET d == row_outside[band_items[i]]
           pl == Placement(d, lane_end)
           lane == pl[1]
           x == pl[2]
           y == LaneY(direction, lane)
       IN /\ texts' = Append(texts,
                 [x |-> x, y |-> y, label |-> d.label,
                  style |-> (IF d.style = "None" THEN "normal" ELSE d.style),
                  leader_x2 |-> d.anchor_x2,
                  leader_y |-> y0 + (IF direction > 0 THEN bar_half ELSE -bar_half),
                  item |-> band_items[i], direction |-> direction, lane |-> lane])
          /\ lane_end' = IF lane < Len(lane_end)
                         THEN [lane_end EXCEPT ![lane + 1] = x + d.width]
                         ELSE Append(lane_end, x + d.width)
          /\ IF direction > 0
             THEN /\ top_max_y' = Max(top_max_y, y)
                  /\ UNCHANGED bottom_min_y
             ELSE /\ bottom_min_y' = Min(bottom_min_y, y)
                  /\ UNCHANGED top_max_y
    /\ i' = i + 1
    /\ UNCHANGED <<xls, include_cm, char_px, pc, df, bars, merged, cur_team, cur_s,
                   cur_e, digest_groups, inside, row_outside, top_items, bottom_items,
                   direction>>

\* place_band(top_items) has returned: place_band(bottom_items) starts
NextBand ==
    /\ pc = "place"
    /\ i > Len(band_items)
    /\ direction > 0
    /\ direction' = -1
    /\ lane_end' = <<>>
    /\ i' = 1
    /\ UNCHANGED <<xls, include_cm, char_px, pc, df, bars, merged, cur_team, cur_s,
                   cur_e, digest_groups, inside, row_outside, top_items, bottom_items,
                   texts, top_max_y, bottom_min_y>>

Return ==
    /\ pc = "place"
    /\ i > Len(band_items)
    /\ direction < 0
    /\ pc' = "done"
    /\ UNCHANGED <<xls, include_cm, char_px, df, bars, merged, cur_team, cur_s, cur_e, i,
                   digest_groups, inside, row_outside, top_items, bottom_items,
                   direction, lane_end, texts, top_max_y, bottom_min_y>>

(***************************************************************************)
(* Inputs                                                                  *)
(***************************************************************************)
RECURSIVE SeqsUpTo(_, _)
SeqsUpTo(S, n) ==
    IF n = 0 THEN {<<>>}
    ELSE SeqsUpTo(S, n - 1) \cup
         {Append(q, x) : q \in {q \in SeqsUpTo(S, n - 1) : Len(q) = n - 1}, x \in S}

Row(dur, team, dept, note) == [dur |-> dur, team |-> team, dept |-> dept, note |-> note]

\* rows of the sheets of a whole run of generate
SheetRows ==
    { Row(Num(600), <<"A">>, JINRIKI, <<>>),
      Row(Num(300), <<"A">>, JINRIKI, VTR),
      Row(Num(100), <<"B">>, KAKKUU, CM),
      Row(Num(50), <<"B">>, KAKKUU, DIGEST),
      Row(Num(1000), <<>>, <<>>, <<>>),
      Row(Num(50), <<"A">>, JINRIKI, DIGEST),
      Row(Num(5), <<"B">>, KAKKUU \o <<"bu">>, <<>>) }

CharPx == {3, 1500}

Sheets == SeqsUpTo(SheetRows, MaxRows)

Init ==
    /\ xls \in Sheets
    /\ include_cm \in BOOLEAN
    /\ char_px \in CharPx
    /\ pc = "process_sheet"
    /\ df = <<>>
    /\ bars = <<>>
    /\ merged = <<>>
    /\ cur_team = None
    /\ cur_s = None
    /\ cur_e = None
    /\ i = 1
    /\ digest_groups = <<>>
    /\ inside = <<>>
    /\ row_outside = <<>>
    /\ top_items = <<>>
    /\ bottom_items = <<>>
    /\ direction = 1
    /\ lane_end = <<>>
    /\ texts = <<>>
    /\ top_max_y = y0 + bar_half
    /\ bottom_min_y = y0 - bar_half

LayoutNext == EnterLayout \/ Place \/ NextBand \/ Return

Next ==
    \/ ProcessSheet
    \/ DrawBars
    \/ TeamMergeRow
    \/ TeamMergeEnd
    \/ DigestScan
    \/ DigestEnd
    \/ LabelTeam
    \/ LabelTeamsEnd
    \/ LabelDigest
    \/ LabelDigestsEnd
    \/ EnterLayout
    \/ Place
    \/ NextBand
    \/ Return

Spec == Init /\ [][Next]_vars

(***************************************************************************)
(* process_sheet and the bars alone, over sheets with every kind of row    *)
(***************************************************************************)
CleaningRows ==
    { Row(Num(600), <<"A">>, JINRIKI, <<>>),
      Row(Num(300), <<"A">>, JINRIKI, VTR),
      Row(Num(100), <<"B">>, KAKKUU, CM),
      Row(Num(100), <<"x">> \o CM, JINRIKI, VTR),
      Row(Num(100), <<"B">>, CM \o KAKKUU, VTR),
      Row(Num(50), <<"B">>, KAKKUU, VTR \o DIGEST),
      Row(Num(5), <<"M", "C">>, KAKKUU \o <<"bu">>, <<"C", "x", "M">>),
      Row(Num(1000), <<>>, <<>>, VTR),
      Row(NaN, <<"A">>, JINRIKI, <<>>),
      Row(Num(0), <<"B">>, KAKKUU, <<>>),
      Row(Num(-5), <<"A">>, JINRIKI, VTR) }

InitSheet ==
    /\ xls \in SeqsUpTo(CleaningRows, MaxRows)
    /\ include_cm \in BOOLEAN
    /\ char_px = 3
    /\ pc = "process_sheet"
    /\ df = <<>>
    /\ bars = <<>>
    /\ merged = <<>>
    /\ cur_team = None
    /\ cur_s = None
    /\ cur_e = None
    /\ i = 1
    /\ digest_groups = <<>>
    /\ inside = <<>>
    /\ row_outside = <<>>
    /\ top_items = <<>>
    /\ bottom_items = <<>>
    /\ direction = 1
    /\ lane_end = <<>>
    /\ texts = <<>>
    /\ top_max_y = y0 + bar_half
    /\ bottom_min_y = y0 - bar_half

NextSheet == ProcessSheet \/ DrawBars

SpecSheet == InitSheet /\ [][NextSheet]_vars

(***************************************************************************)
(* draw_row_outside_labels alone, over any list of requests                *)
(***************************************************************************)
Item(a2, pref, w) ==
    [label |-> <<"A">>, anchor_x2 |-> a2, pref_x |-> pref, width |-> w, style |-> "None"]

\* widths are values of need_sec: at least need_pad
LayoutItems ==
    { Item(5, 11, 6000),
      Item(1990, 1006, 2000),
      Item(3990, 2006, 14),
      Item(14390, 7206, 14),
      Item(5, 11, 7206) }

InitLayout ==
    /\ row_outside \in SeqsUpTo(LayoutItems, MaxItems)
    /\ pc = "layout"
    /\ xls = <<>>
    /\ include_cm = FALSE
    /\ char_px = 3
    /\ df = <<>>
    /\ bars = <<>>
    /\ merged = <<>>
    /\ cur_team = None
    /\ cur_s = None
    /\ cur_e = None
    /\ i = 1
    /\ digest_groups = <<>>
    /\ inside = <<>>
    /\ top_items = <<>>
    /\ bottom_items = <<>>
    /\ direction = 1
    /\ lane_end = <<>>
    /\ texts = <<>>
    /\ top_max_y = y0 + bar_half
    /\ bottom_min_y = y0 - bar_half

SpecLayout == InitLayout /\ [][LayoutNext]_vars

\* the program is sequential: a step that can be taken is taken
SpecLayoutFair == SpecLayout /\ WF_vars(LayoutNext)

(***************************************************************************)
(* Properties of place_band and draw_row_outside_labels                    *)
(***************************************************************************)
WidthOf(t) == row_outside[t.item].width

SameLane(a, b) == a.direction = b.direction /\ a.lane = b.lane

\* C1: two labels placed in the same lane of the same band never overlap: the
\* one placed earlier ends (x + width) at least min_gap = 10 seconds before the
\* one placed later starts.
C1_NoOverlapInLane ==
    \A a, b \in 1..Len(texts) :
        (a < b /\ SameLane(texts[a], texts[b]))
            => texts[a].x + WidthOf(texts[a]) + 10 <= texts[b].x

\* three labels share one lane
C1_Witness ==
    \E a, b, c \in 1..Len(texts) :
        /\ a < b /\ b < c
        /\ SameLane(texts[a], texts[b])
        /\ SameLane(texts[b], texts[c])

TimesPlaced(k) == Cardinality({t \in 1..Len(texts) : texts[t].item = k})

InBand(k, band) == \E p \in 1..Len(band) : band[p] = k

PlacedOnce ==
    /\ Len(texts) = Len(row_outside)
    /\ \A k \in 1..Len(row_outside) :
          /\ TimesPlaced(k) = 1
          /\ row_outside # <<>> => (InBand(k, top_items) /\ ~InBand(k, bottom_items))
                                   \/ (~InBand(k, top_items) /\ InBand(k, bottom_items))
          /\ \A t \in 1..Len(texts) :
                texts[t].item = k
                    => /\ texts[t].direction = (IF InBand(k, top_items) THEN 1 ELSE -1)
                       /\ texts[t].lane >= 0

\* C2: for any list of requests draw_row_outside_labels returns, and then every
\* request has been placed exactly once, in one band and one lane.
C2_AllPlaced == <>[](pc = "done" /\ PlacedOnce)

\* five requests, three of them at one position, placed in two bands with
\* more than one lane in each
C2_Witness ==
    /\ pc = "done"
    /\ Len(texts) = 5
    /\ \E a, b, c \in 1..Len(row_outside) :
          a < b /\ b < c /\ row_outside[a] = row_outside[b] /\ row_outside[b] = row_outside[c]
    /\ \E t \in 1..Len(texts) : texts[t].direction = 1 /\ texts[t].lane = 1
    /\ \E t \in 1..Len(texts) : texts[t].direction = -1 /\ texts[t].lane = 1

CandidateX(d) == Max(xmin + 8, Min(d.pref_x, xmax - d.width - 12))

LaneFits(d, endx) == endx + 10 <= (xmax - 12) - d.width

LowestFit(d, lanes) ==
    CHOOSE k \in 1..Len(lanes) :
        LaneFits(d, lanes[k]) /\ \A j \in 1..Len(lanes) : LaneFits(d, lanes[j]) => k <= j

PlacedFirstFit ==
    LET t == texts'[Len(texts')]
        d == row_outside[t.item]
    IN /\ t.item = band_items[i]
       /\ i > 1 => row_outside[band_items[i - 1]].anchor_x2 <= d.anchor_x2
       /\ IF \E k \in 1..Len(lane_end) : LaneFits(d, lane_end[k])
          THEN LET k == LowestFit(d, lane_end)
               IN /\ t.lane = k - 1
                  /\ t.x = Max(CandidateX(d), lane_end[k] + 10)
                  /\ lane_end' = [lane_end EXCEPT ![k] = t.x + d.width]
          ELSE /\ t.lane = Len(lane_end)
               /\ t.x = CandidateX(d)
               /\ lane_end' = Append(lane_end, t.x + d.width)
       /\ t.y = y0 + t.direction * (35 + 12 + 22 * t.lane)
       /\ Len(lane_end') <= i

\* C9: place_band is first-fit: a request, taken in ascending anchor order,
\* goes to the lowest lane whose rightmost x plus the gap is at most
\* xmax - right margin - width, at max(candidate x, rightmost + gap), and the
\* lane's rightmost x becomes x + width; only when no lane fits is a new lane
\* opened, at the next vertical offset, with the label at the candidate x; a
\* band never has more lanes than labels.
C9_FirstFit == [][Len(texts') = Len(texts) + 1 => PlacedFirstFit]_vars

\* a label went back to lane 0 after lane 1 had been opened
C9_Witness ==
    \E a, b, c \in 1..Len(texts) :
        /\ a < b /\ b < c
        /\ texts[a].direction = texts[b].direction
        /\ texts[b].direction = texts[c].direction
        /\ texts[a].lane = 0 /\ texts[b].lane = 1 /\ texts[c].lane = 0
        /\ texts[b].x + WidthOf(texts[b]) + 10 <= (xmax - 12) - WidthOf(texts[c])

OpensLane(t) ==
    \A u \in 1..Len(texts) : (u < t /\ SameLane(texts[u], texts[t])) => FALSE

\* C10: every placed label starts at x >= xmin + 8; a label no wider than
\* xmax - xmin - 20 ends at x + width <= xmax - 12; a wider label never joins an
\* existing lane: it opens a lane, at x = xmin + 8.
C10_HorizontalBound ==
    \A t \in 1..Len(texts) :
        /\ texts[t].x >= xmin + 8
        /\ WidthOf(texts[t]) <= xmax - xmin - 20
              => texts[t].x + WidthOf(texts[t]) <= xmax - 12
        /\ texts[t].x + WidthOf(texts[t]) > xmax - 12
              => /\ WidthOf(texts[t]) > xmax - xmin - 20
                 /\ texts[t].x = xmin + 8
                 /\ OpensLane(t)

\* a label wider than the axis opened lane 1, and another label ends exactly at
\* the right margin
C10_Witness ==
    /\ \E t \in 1..Len(texts) :
          WidthOf(texts[t]) > 7180 /\ texts[t].lane >= 1 /\ texts[t].x = 8
    /\ \E t \in 1..Len(texts) :
          WidthOf(texts[t]) <= 7180 /\ texts[t].x + WidthOf(texts[t]) = 7188

(***************************************************************************)
(* Properties of process_sheet and the bars                                *)
(***************************************************************************)
NumericPositive(r) == r.dur.nan = FALSE /\ r.dur.val > 0

Commercial(r) ==
    \/ Contains(r.team, <<"C", "M">>)
    \/ Contains(r.dept, <<"C", "M">>)
    \/ Contains(r.note, <<"C", "M">>)

KeptRow(r) == NumericPositive(r) /\ (include_cm \/ ~Commercial(r))

RECURSIVE SumDur(_)
SumDur(rows) == IF rows = <<>> THEN 0 ELSE rows[1].dur.val + SumDur(Tail(rows))

TotalEnd == IF df = <<>> THEN 0 ELSE df[Len(df)].end

SameRow(seg, r) ==
    seg.dur = r.dur.val /\ seg.team = r.team /\ seg.dept = r.dept /\ seg.note = r.note

R600 == Row(Num(600), <<"A">>, JINRIKI, <<>>)
R300 == Row(Num(300), <<"A">>, JINRIKI, VTR)
R100CM == Row(Num(100), <<"B">>, KAKKUU, CM)

\* C6: without include_cm no returned segment is commercial and the timeline
\* ends at the sum of the durations of the valid non-commercial rows (600, 300
\* and a commercial 100 end at 900); with include_cm the commercial rows are
\* kept and flagged and the timeline ends at the sum over all valid rows (1000).
C6_Commercials ==
    pc # "process_sheet" =>
        /\ ~include_cm =>
              /\ \A k \in 1..Len(df) : ~df[k].is_cm /\ ~Commercial(df[k])
              /\ LET NonCm(r) == NumericPositive(r) /\ ~Commercial(r)
                 IN TotalEnd = SumDur(SelectSeq(xls, NonCm))
        /\ include_cm =>
              /\ \A k \in 1..Len(df) : df[k].is_cm = Commercial(df[k])
              /\ Len(df) = Len(SelectSeq(xls, NumericPositive))
              /\ TotalEnd = SumDur(SelectSeq(xls, NumericPositive))
        /\ xls = <<R600, R300, R100CM>> => TotalEnd = (IF include_cm THEN 1000 ELSE 900)

\* the sheet 600, 300, commercial 100 without include_cm: the timeline ends at 900
C6_Witness ==
    /\ pc # "process_sheet"
    /\ xls = <<R600, R300, R100CM>>
    /\ ~include_cm
    /\ Len(df) = 2
    /\ TotalEnd = 900

ColourTable(dept, note, cm) ==
    CASE cm -> "#9a9a9a"
      [] ~cm /\ Contains(dept, <<"jin", "riki">>) /\ Contains(note, <<"V", "T", "R">>)
            -> "#2fa0fc"
      [] ~cm /\ Contains(dept, <<"jin", "riki">>) /\ ~Contains(note, <<"V", "T", "R">>)
            -> "#b3e9f8"
      [] ~cm /\ ~Contains(dept, <<"jin", "riki">>) /\ Contains(dept, <<"katsu", "kuu">>)
             /\ Contains(note, <<"V", "T", "R">>)
            -> "#00d65b"
      [] ~cm /\ ~Contains(dept, <<"jin", "riki">>) /\ Contains(dept, <<"katsu", "kuu">>)
             /\ ~Contains(note, <<"V", "T", "R">>)
            -> "#cbf266"
      [] OTHER -> "#c8c8cb"

\* C8: the colour of a bar is a function of (department, remark, commercial):
\* #9a9a9a for a commercial, else by the department and VTR table, and two
\* segments with the same three inputs get the same colour.
C8_BarColour ==
    pc = "team_merge" =>
        /\ Len(bars) = Len(df)
        /\ \A k \in 1..Len(df) :
              bars[k].fc = ColourTable(df[k].dept, df[k].note, df[k].is_cm)
        /\ \A k, l \in 1..Len(df) :
              (df[k].dept = df[l].dept /\ df[k].note = df[l].note
                   /\ df[k].is_cm = df[l].is_cm) => bars[k].fc = bars[l].fc

\* a commercial bar of a human-powered VTR segment is grey, beside a blue one
C8_Witness ==
    /\ pc = "team_merge"
    /\ \E k, l \in 1..Len(bars) :
          /\ df[k].is_cm /\ Contains(df[k].dept, JINRIKI) /\ Contains(df[k].note, VTR)
          /\ bars[k].fc = "#9a9a9a"
          /\ ~df[l].is_cm /\ bars[l].fc = "#2fa0fc"

(***************************************************************************)
(* Properties of the merges and of the fits-inside decision                *)
(***************************************************************************)
IsTeamSeg(r) == ~r.is_digest /\ ~r.is_cm

SameTeamRun(rows, a, b) ==
    \A k \in a..b : IsTeamSeg(rows[k]) /\ rows[k].team = rows[a].team

MaximalTeamRun(rows, a, b) ==
    /\ SameTeamRun(rows, a, b)
    /\ a = 1 \/ ~SameTeamRun(rows, a - 1, b)
    /\ b = Len(rows) \/ ~SameTeamRun(rows, a, b + 1)

RECURSIVE TeamRunsFrom(_, _)
TeamRunsFrom(rows, a) ==
    IF a > Len(rows) THEN <<>>
    ELSE IF \E b \in a..Len(rows) : MaximalTeamRun(rows, a, b) /\ ~IsBlank(rows[a].team)
         THEN LET b == CHOOSE b \in a..Len(rows) : MaximalTeamRun(rows, a, b)
              IN <<<<rows[a].team, rows[a].start, rows[b].end>>>> \o TeamRunsFrom(rows, a + 1)
         ELSE TeamRunsFrom(rows, a + 1)

NonBlankSpan(span) == ~IsBlank(span[1])

TeamMergeDone == pc \notin {"process_sheet", "bars", "team_merge"}

\* C3: the non-blank team spans are exactly the maximal runs of consecutive
\* segments with one team that are neither digest nor commercial, once each, in
\* order, as (team, start of the first, end of the last); a digest or commercial
\* segment leaves no run open and lies in no team span.
C3_TeamRuns ==
    /\ TeamMergeDone =>
          /\ SelectSeq(merged, NonBlankSpan) = TeamRunsFrom(df, 1)
          /\ \A m \in 1..Len(merged) : \A k \in 1..Len(df) :
                ~IsTeamSeg(df[k])
                    => (df[k].end <= merged[m][2] \/ df[k].start >= merged[m][3])
    /\ (pc = "team_merge" /\ i > 1 /\ ~IsTeamSeg(df[i - 1])) => cur_team = None

\* two runs of one team, the first of two segments, apart by a commercial or a digest
C3_Witness ==
    /\ TeamMergeDone
    /\ Len(merged) = 2
    /\ merged[1][1] = merged[2][1]
    /\ merged[1] = <<<<"A">>, 0, 900>>
    /\ Len(df) = 4
    /\ ~IsTeamSeg(df[3])

MaximalDigestRun(rows, a, b) ==
    /\ \A k \in a..b : rows[k].is_digest
    /\ a = 1 \/ ~rows[a - 1].is_digest
    /\ b = Len(rows) \/ ~rows[b + 1].is_digest

RECURSIVE DigestRunsFrom(_, _)
DigestRunsFrom(rows, a) ==
    IF a > Len(rows) THEN <<>>
    ELSE IF \E b \in a..Len(rows) : MaximalDigestRun(rows, a, b)
         THEN LET b == CHOOSE b \in a..Len(rows) : MaximalDigestRun(rows, a, b)
              IN <<<<rows[a].start, rows[b].end, b - a + 1>>>> \o DigestRunsFrom(rows, a + 1)
         ELSE DigestRunsFrom(rows, a + 1)

DigestMergeDone == TeamMergeDone /\ pc # "digest_merge"

\* C5: the digest groups are exactly the maximal runs of consecutive digest
\* segments, one group each, as (start of the first, end of the last, count);
\* the count is the number of digest segments inside the group; team labels do
\* not matter (three digests of 50 s from t = 1000 give (1000, 1150, 3)).
C5_DigestGroups ==
    DigestMergeDone =>
        /\ digest_groups = DigestRunsFrom(df, 1)
        /\ \A g \in 1..Len(digest_groups) :
              digest_groups[g][3] =
                  Cardinality({k \in 1..Len(df) :
                                  /\ df[k].is_digest
                                  /\ df[k].start >= digest_groups[g][1]
                                  /\ df[k].end <= digest_groups[g][2]})
        /\ \A k \in 1..(Len(df) - 2) :
              (/\ df[k].start = 1000
               /\ \A j \in k..(k + 2) : df[j].is_digest /\ df[j].dur = 50
               /\ k + 2 = Len(df) \/ ~df[k + 3].is_digest)
                  => \E g \in 1..Len(digest_groups) : digest_groups[g] = <<1000, 1150, 3>>

\* three digests of 50 s of different teams from t = 1000
C5_Witness ==
    /\ DigestMergeDone
    /\ digest_groups = <<<<1000, 1150, 3>>>>
    /\ Len(df) = 4
    /\ df[2].team # df[3].team

LabelledSpans ==
    [m \in 1..Len(SelectSeq(merged, NonBlankSpan)) |->
        [label |-> SelectSeq(merged, NonBlankSpan)[m][1],
         s |-> SelectSeq(merged, NonBlankSpan)[m][2],
         e |-> SelectSeq(merged, NonBlankSpan)[m][3]]]
    \o [g \in 1..Len(digest_groups) |->
        [label |-> DigestLabel(digest_groups[g][3]),
         s |-> digest_groups[g][1], e |-> digest_groups[g][2]]]

InsideOf(sp) ==
    {m \in 1..Len(inside) : inside[m].label = sp.label /\ inside[m].xc2 = sp.s + sp.e}

OutsideOf(sp) ==
    {m \in 1..Len(row_outside) :
        row_outside[m].label = sp.label /\ row_outside[m].anchor_x2 = sp.s + sp.e}

LabelsDone == pc \in {"layout", "place", "done"}

\* C7: every non-blank team span and every digest group is either drawn inside
\* its bar or queued outside, never both: inside exactly when end - start is
\* greater than the label's width in seconds plus 6; a queued request has its
\* anchor at the midpoint, pref_x = end + 6 and that width; a span of 5 seconds
\* is queued.
C7_FitsInside ==
    LabelsDone =>
        /\ Len(inside) + Len(row_outside) = Len(LabelledSpans)
        /\ \A q \in 1..Len(LabelledSpans) :
              LET sp == LabelledSpans[q]
                  need == (Len(sp.label) * char_px * 7200) \div 2700 + 6
              IN /\ Cardinality(InsideOf(sp)) + Cardinality(OutsideOf(sp)) = 1
                 /\ Cardinality(InsideOf(sp)) = 1 <=> sp.e - sp.s > need
                 /\ \A m \in OutsideOf(sp) :
                       /\ row_outside[m].pref_x = sp.e + 6
                       /\ row_outside[m].width = need
                 /\ sp.e - sp.s = 5 => Cardinality(OutsideOf(sp)) = 1

\* a span of 5 seconds is queued outside while another label is drawn inside
C7_Witness ==
    /\ LabelsDone
    /\ inside # <<>>
    /\ \E q \in 1..Len(LabelledSpans) :
          /\ LabelledSpans[q].e - LabelledSpans[q].s = 5
          /\ Cardinality(OutsideOf(LabelledSpans[q])) = 1
    /\ \E m \in 1..Len(row_outside) : row_outside[m].style = "italic"

====
